---- MODULE Spec2Model ----
(***************************************************************************)
(* Model of the Xata -> PostgreSQL migration tool (src/main.go).           *)
(*                                                                         *)
(* The program is one sequential thread: main connects to both databases,  *)
(* migrate runs introspectSchema, createSchema and copyData, and main      *)
(* exits.  The model has one action for every interaction of that thread   *)
(* with a database (a query, one advance of a cursor, a statement, one row *)
(* of the bulk load) and one for every return of a phase to migrate.  The  *)
(* databases are the environment: every interaction can be refused, and a  *)
(* cursor can stop early with its error left in rows.Err().                *)
(***************************************************************************)
EXTENDS Integers, Sequences, FiniteSets, TLC

\* Bounds of the model.
MaxTables == 2      \* tables in the source's public schema
MaxRows == 1        \* rows of a source table that is not empty
MaxSilent == 1      \* cursors per run that stop early with an error in Err()

(***************************************************************************)
(* Text helpers (main.go, bottom of the file).                             *)
(***************************************************************************)
contains(s, substr) ==
    \E k \in 1..(Len(s) - Len(substr) + 1) : SubSeq(s, k, k + Len(substr) - 1) = substr

HasPrefix(s, prefix) ==
    Len(s) >= Len(prefix) /\ SubSeq(s, 1, Len(prefix)) = prefix

RECURSIVE joinFrom(_, _, _)
joinFrom(strs, sep, k) ==
    IF k > Len(strs) THEN "" ELSE sep \o strs[k] \o joinFrom(strs, sep, k + 1)

joinStrings(strs, sep) ==
    IF Len(strs) = 0 THEN "" ELSE strs[1] \o joinFrom(strs, sep, 2)

\* fmt.Sprintf(`"%s"`, name): a delimited identifier, nothing escaped.
Quote(name) == "\"" \o name \o "\""

(***************************************************************************)
(* Column.Default is a *string: nil or a string.                           *)
(***************************************************************************)
Nil == [isNil |-> TRUE, val |-> ""]
Str(s) == [isNil |-> FALSE, val |-> s]

(***************************************************************************)
(* The sanitizer of the column loop of introspectSchema.                   *)
(***************************************************************************)
\* 1. Remove defaults that refer to the xata_private schema or a ::xata_ cast.
StripPrivateDefault(col) ==
    IF ~col.Default.isNil
       /\ (contains(col.Default.val, "xata_private") \/ contains(col.Default.val, "::xata_"))
    THEN [col EXCEPT !.Default = Nil]
    ELSE col

\* Variant: the type is rewritten and the default is left in place.
RewriteSequence_KeepDefault(col) ==
    IF ~col.Default.isNil /\ contains(col.Default.val, "nextval(")
    THEN IF HasPrefix(col.DataType, "integer") \/ col.DataType = "int4"
         THEN [col EXCEPT !.DataType = "SERIAL"]
         ELSE IF HasPrefix(col.DataType, "bigint") \/ col.DataType = "int8"
              THEN [col EXCEPT !.DataType = "BIGSERIAL"]
              ELSE col
    ELSE col

\* 3. Handle sequences (nextval): integer -> SERIAL, bigint -> BIGSERIAL.
RewriteSequence(col) ==
    IF ~col.Default.isNil /\ contains(col.Default.val, "nextval(")
    THEN IF HasPrefix(col.DataType, "integer") \/ col.DataType = "int4"
         THEN [col EXCEPT !.DataType = "SERIAL", !.Default = Nil]
         ELSE IF HasPrefix(col.DataType, "bigint") \/ col.DataType = "int8"
              THEN [col EXCEPT !.DataType = "BIGSERIAL", !.Default = Nil]
              ELSE col
    ELSE col

\* Variant: the sequence rewrite before the removal of private defaults.
Sanitize_SequenceFirst(col) == StripPrivateDefault(RewriteSequence(col))

\* Variant: the sequence rewrite alone, private defaults are not removed.
Sanitize_SequenceOnly(col) == RewriteSequence(col)

Sanitize(col) == RewriteSequence(StripPrivateDefault(col))

\* cRows.Scan(&c.Name, &c.DataType, &notNull, &c.Default), the nullability
\* text and the sanitizer: one catalog row becomes one Column.
ScanColumn(row) ==
    Sanitize([Name |-> row.attname,
              DataType |-> row.typ,
              IsNullable |-> IF row.attnotnull THEN "NO" ELSE "YES",
              Default |-> row.adsrc])

(***************************************************************************)
(* The statements createSchema builds.                                     *)
(***************************************************************************)
DropSQL(t) == "DROP TABLE IF EXISTS " \o Quote(t.Name) \o " CASCADE"

ColumnSQL(col) ==
    Quote(col.Name) \o " " \o col.DataType
      \o (IF col.IsNullable = "NO" THEN " NOT NULL" ELSE "")
      \o (IF ~col.Default.isNil THEN " DEFAULT " \o col.Default.val ELSE "")

RECURSIVE ColumnsSQL(_, _)
ColumnsSQL(cols, k) ==
    IF k > Len(cols) THEN ""
    ELSE ColumnSQL(cols[k]) \o (IF k < Len(cols) THEN ", " ELSE "") \o ColumnsSQL(cols, k + 1)

RECURSIVE KeyListSQL(_, _)
KeyListSQL(pk, k) ==
    IF k > Len(pk) THEN ""
    ELSE Quote(pk[k]) \o (IF k < Len(pk) THEN ", " ELSE "") \o KeyListSQL(pk, k + 1)

PrimaryKeySQL(pk) ==
    IF Len(pk) > 0 THEN ", PRIMARY KEY (" \o KeyListSQL(pk, 1) \o ")" ELSE ""

CreateSQL(t) ==
    "CREATE TABLE " \o Quote(t.Name) \o " (" \o ColumnsSQL(t.Columns, 1)
      \o PrimaryKeySQL(t.PrimaryKey) \o ")"

(***************************************************************************)
(* The column lists copyData builds.                                       *)
(***************************************************************************)
colNames(t) == [k \in 1..Len(t.Columns) |-> t.Columns[k].Name]
escapedColNames(t) == [k \in 1..Len(t.Columns) |-> Quote(t.Columns[k].Name)]
CountSQL(t) == "SELECT count(*) FROM " \o Quote(t.Name)
SelectSQL(t) == "SELECT " \o joinStrings(escapedColNames(t), ", ") \o " FROM " \o Quote(t.Name)

(***************************************************************************)
(* The source database: what its catalog and its tables answer.            *)
(***************************************************************************)
TableNames == {"users", "tags", "logs"}

\* pg_attribute rows of a table, ORDER BY attnum.
CatalogColumns(name) ==
    CASE name = "users" ->
           << [attname |-> "id", typ |-> "integer", attnotnull |-> TRUE,
               adsrc |-> Str("nextval('users_id_seq'::regclass)")],
              [attname |-> "note", typ |-> "text", attnotnull |-> FALSE,
               adsrc |-> Str("xata_private.foo()")] >>
      [] name = "tags" ->
           << [attname |-> "post", typ |-> "bigint", attnotnull |-> TRUE, adsrc |-> Nil],
              [attname |-> "label", typ |-> "text", attnotnull |-> TRUE, adsrc |-> Nil] >>
      [] OTHER ->
           << [attname |-> "msg", typ |-> "text", attnotnull |-> FALSE,
               adsrc |-> Str("'none'::text")] >>

\* key_column_usage rows of a table's PRIMARY KEY, ORDER BY ordinal_position.
CatalogPrimaryKey(name) ==
    CASE name = "users" -> << "id" >>
      [] name = "tags" -> << "label", "post" >>
      [] OTHER -> << >>

\* The value of column col in row k of source table name.
SourceValue(name, k, col) == << name, k, col >>

\* The row a cursor opened with the select list `sel` yields at position k:
\* one value per selected (quoted) column, in the order of the list.
SourceRow(name, k, sel) ==
    [j \in 1..Len(sel) |-> SourceValue(name, k, SubSeq(sel[j], 2, Len(sel[j]) - 1))]

\* Sequences of table names of length up to n, each table empty or with
\* MaxRows rows.
RECURSIVE Databases(_)
Databases(n) ==
    IF n = 0 THEN { << >> }
    ELSE { Append(db, [name |-> nm, nrows |-> r]) :
             db \in { d \in Databases(n - 1) : Len(d) = n - 1 },
             nm \in TableNames, r \in {0, MaxRows} } \cup Databases(n - 1)

SourceDatabases ==
    { db \in Databases(MaxTables) :
        \A a, b \in 1..Len(db) : a # b => db[a].name # db[b].name }

(***************************************************************************)
(* The destination database.                                               *)
(***************************************************************************)
Absent == [exists |-> FALSE, ddl |-> "", rows |-> << >>]
Stale == [exists |-> TRUE, ddl |-> "CREATE TABLE stale (\"old\" text)", rows |-> << [old |-> "x"] >>]

\* Variant: the DROP leaves the table in place.
DropTable_Keep(d, name) == d

\* Variant: the DROP takes every table of the destination with it.
DropTable_All(d, name) == [n \in DOMAIN d |-> Absent]

\* DROP TABLE IF EXISTS "name" CASCADE
DropTable(d, name) == [d EXCEPT ![name] = Absent]

\* CREATE TABLE "name" (...) on a destination without that table
CreateTable(d, name, sql) == [d EXCEPT ![name] = [exists |-> TRUE, ddl |-> sql, rows |-> << >>]]

\* One row of CopyFrom: position j of the row goes to column cols[j].
LoadedRow(cols, values) ==
    [cn \in { cols[j] : j \in 1..Len(cols) } |->
        values[CHOOSE j \in 1..Len(cols) : cols[j] = cn]]

AppendRow(d, name, row) == [d EXCEPT ![name].rows = Append(@, row)]

DriverErr == "driver error"

VARIABLES
    src,        \* the source database: << [name, nrows], ... >> in catalog order
    dest,       \* the destination database: table name -> table
    srcConn,    \* sourceConn: "none", "open", "closed"
    dstConn,    \* destConn
    pc,         \* position of the thread in the program
    state,      \* state of the orchestrator
    visited,    \* the states of the orchestrator so far, in order
    tables,     \* []Table, the snapshot
    i,          \* index of the table the current loop is at
    openCur,    \* result cursors open on the source connection
    pos,        \* rows the current cursor has yielded
    rowsErr,    \* Err() of the current cursor
    raw,        \* the catalog row cRows.Scan read last
    c,          \* the Column appended last
    count,      \* count of copyData
    bar,        \* the progress bar of the table being copied
    issued,     \* statements and queries issued so far
    exitCode,   \* -1 while running, then the process status
    msg,        \* the message log.Fatalf printed
    failAt,     \* what failed: phase, table concerned, cause
    silent,     \* cursor errors left unread in Err()
    run,        \* 1, or 2 for a second createSchema on the same snapshot
    dest1       \* the destination after the first createSchema

vars == << src, dest, srcConn, dstConn, pc, state, visited, tables, i, openCur, pos, rowsErr,
           raw, c, count, bar, issued, exitCode, msg, failAt, silent, run, dest1 >>

NoRow == [attname |-> "", typ |-> "", attnotnull |-> FALSE, adsrc |-> Nil]
NoColumn == [Name |-> "", DataType |-> "", IsNullable |-> "", Default |-> Nil]
NoBar == [max |-> 0, n |-> 0, finished |-> 0]
NoFailure == [phase |-> "none", table |-> "", cause |-> "none"]

Entry(op, conn, table, text, cols) ==
    [op |-> op, conn |-> conn, table |-> table, text |-> text, cols |-> cols]

Init ==
    /\ src \in SourceDatabases
    /\ dest \in { [n \in TableNames |-> Absent], [n \in TableNames |-> Stale] }
    /\ srcConn = "none"
    /\ dstConn = "none"
    /\ pc = "connectSource"
    /\ state = "Start"
    /\ visited = << "Start" >>
    /\ tables = << >>
    /\ i = 0
    /\ openCur = {}
    /\ pos = 0
    /\ rowsErr = FALSE
    /\ raw = NoRow
    /\ c = NoColumn
    /\ count = 0
    /\ bar = NoBar
    /\ issued = << >>
    /\ exitCode = -1
    /\ msg = ""
    /\ failAt = NoFailure
    /\ silent = 0
    /\ run = 1
    /\ dest1 = dest

(***************************************************************************)
(* log.Fatalf: the message is printed and the process exits with status 1; *)
(* os.Exit runs no deferred call, so the connections are not closed.       *)
(***************************************************************************)
Fatal(text, phase, table, cause) ==
    /\ pc' = "exit"
    /\ state' = "Failed"
    /\ visited' = Append(visited, "Failed")
    /\ exitCode' = 1
    /\ msg' = text
    /\ failAt' = [phase |-> phase, table |-> table, cause |-> cause]

\* migrate returned an error: main prints "Migration failed: ...".
MigrationFailed(text, phase, table, cause) ==
    Fatal("Migration failed: " \o text, phase, table, cause)

(***************************************************************************)
(* main: the two connections.                                              *)
(***************************************************************************)
ConnectSource ==
    /\ pc = "connectSource"
    /\ \E ok \in BOOLEAN :
         IF ok
         THEN /\ srcConn' = "open"
              /\ pc' = "connectDest"
              /\ UNCHANGED << state, visited, exitCode, msg, failAt >>
         ELSE /\ Fatal("Unable to connect to source database: " \o DriverErr,
                       "connect", "", "env")
              /\ UNCHANGED srcConn
    /\ UNCHANGED << src, dest, dstConn, tables, i, openCur, pos, rowsErr, raw, c, count,
                    bar, issued, silent, run, dest1 >>

ConnectDest ==
    /\ pc = "connectDest"
    /\ \E ok \in BOOLEAN :
         IF ok
         THEN /\ dstConn' = "open"
              /\ pc' = "listTables"
              /\ state' = "Connected"
              /\ visited' = Append(visited, "Connected")
              /\ UNCHANGED << exitCode, msg, failAt >>
         ELSE /\ Fatal("Unable to connect to destination database: " \o DriverErr,
                       "connect", "", "env")
              /\ UNCHANGED dstConn
    /\ UNCHANGED << src, dest, srcConn, tables, i, openCur, pos, rowsErr, raw, c, count,
                    bar, issued, silent, run, dest1 >>

(***************************************************************************)
(* introspectSchema.                                                       *)
(***************************************************************************)
Introspect(text) == "failed to introspect schema: " \o text

\* Variant: the loop walks the tables from the last one to the first.
NextTableOrReturn_Downwards(k, n, again, done) ==
    IF n > 0 /\ k # 1 THEN /\ i' = (IF k = 0 THEN n ELSE k - 1)
                           /\ pc' = again
                      ELSE /\ i' = k
                           /\ pc' = done

\* for i := range tables: after the last table (or with no table) the loop
\* ends and the function returns.
NextTableOrReturn(k, n, again, done) ==
    IF k < n THEN /\ i' = k + 1
                  /\ pc' = again
             ELSE /\ i' = k
                  /\ pc' = done

\* 1. Get Tables: conn.Query on pg_tables.
ListTables ==
    /\ pc = "listTables"
    /\ issued' = Append(issued, Entry("list", "source", "",
                   "SELECT tablename FROM pg_catalog.pg_tables WHERE schemaname = 'public'",
                   << >>))
    /\ \E ok \in BOOLEAN :
         IF ok
         THEN /\ openCur' = openCur \cup {"tables"}
              /\ pos' = 0
              /\ rowsErr' = FALSE
              /\ pc' = "listNext"
              /\ UNCHANGED << state, visited, exitCode, msg, failAt >>
         ELSE /\ MigrationFailed(Introspect("failed to list tables: " \o DriverErr),
                                 "introspect", "", "env")
              /\ UNCHANGED << openCur, pos, rowsErr >>
    /\ UNCHANGED << src, dest, srcConn, dstConn, tables, i, raw, c, count, bar, silent,
                    run, dest1 >>

\* for rows.Next() { rows.Scan(&t.Name); tables = append(tables, t) }; rows.Close()
\* rows.Next() is false at the end of the result and also when reading it failed;
\* the loop does not read rows.Err().
ListNext ==
    /\ pc = "listNext"
    /\ \/ /\ pos < Len(src)
          /\ \E scanned \in BOOLEAN :
               IF scanned
               THEN /\ tables' = Append(tables, [Name |-> src[pos + 1].name,
                                                 Columns |-> << >>, PrimaryKey |-> << >>])
                    /\ pos' = pos + 1
                    /\ UNCHANGED << pc, state, visited, exitCode, msg, failAt, openCur, i >>
               ELSE /\ openCur' = openCur \ {"tables"}
                    /\ MigrationFailed(Introspect(DriverErr), "introspect", "", "env")
                    /\ UNCHANGED << tables, pos, i >>
          /\ UNCHANGED << rowsErr, silent >>
       \/ /\ \/ /\ pos = Len(src)
                /\ UNCHANGED << rowsErr, silent >>
             \/ /\ silent < MaxSilent
                /\ rowsErr' = TRUE
                /\ silent' = silent + 1
          /\ openCur' = openCur \ {"tables"}
          /\ NextTableOrReturn(0, Len(tables), "colQuery", "introspectReturn")
          /\ UNCHANGED << tables, pos, state, visited, exitCode, msg, failAt >>
    /\ UNCHANGED << src, dest, srcConn, dstConn, raw, c, count, bar, issued, run, dest1 >>

\* Columns: conn.Query on pg_attribute for tables[i].
ColQuery ==
    /\ pc = "colQuery"
    /\ issued' = Append(issued, Entry("columns", "source", tables[i].Name,
                   "SELECT a.attname, format_type(...), a.attnotnull, pg_get_expr(...)",
                   << >>))
    /\ \E ok \in BOOLEAN :
         IF ok
         THEN /\ openCur' = openCur \cup {"cols"}
              /\ pos' = 0
              /\ rowsErr' = FALSE
              /\ pc' = "colNext"
              /\ UNCHANGED << state, visited, exitCode, msg, failAt >>
         ELSE /\ MigrationFailed(Introspect("failed to get columns for table "
                                   \o tables[i].Name \o ": " \o DriverErr),
                                 "introspect", tables[i].Name, "env")
              /\ UNCHANGED << openCur, pos, rowsErr >>
    /\ UNCHANGED << src, dest, srcConn, dstConn, tables, i, raw, c, count, bar, silent,
                    run, dest1 >>

\* for cRows.Next() { Scan; nullability; sanitize; append }; cRows.Close()
ColNext ==
    /\ pc = "colNext"
    /\ LET rows == CatalogColumns(tables[i].Name) IN
       \/ /\ pos < Len(rows)
          /\ \E scanned \in BOOLEAN :
               IF scanned
               THEN /\ raw' = rows[pos + 1]
                    /\ c' = ScanColumn(rows[pos + 1])
                    /\ tables' = [tables EXCEPT ![i].Columns = Append(@, c')]
                    /\ pos' = pos + 1
                    /\ UNCHANGED << pc, state, visited, exitCode, msg, failAt, openCur >>
               ELSE /\ openCur' = openCur \ {"cols"}
                    /\ MigrationFailed(Introspect(DriverErr), "introspect",
                                       tables[i].Name, "env")
                    /\ UNCHANGED << tables, pos, raw, c >>
          /\ UNCHANGED << rowsErr, silent >>
       \/ /\ \/ /\ pos = Len(rows)
                /\ UNCHANGED << rowsErr, silent >>
             \/ /\ silent < MaxSilent
                /\ rowsErr' = TRUE
                /\ silent' = silent + 1
          /\ openCur' = openCur \ {"cols"}
          /\ pc' = "pkQuery"
          /\ UNCHANGED << tables, pos, raw, c, state, visited, exitCode, msg, failAt >>
    /\ UNCHANGED << src, dest, srcConn, dstConn, i, count, bar, issued, run, dest1 >>

\* Primary Keys: conn.Query on information_schema for tables[i].
PKQuery ==
    /\ pc = "pkQuery"
    /\ issued' = Append(issued, Entry("pk", "source", tables[i].Name,
                   "SELECT kcu.column_name ... ORDER BY kcu.ordinal_position", << >>))
    /\ \E ok \in BOOLEAN :
         IF ok
         THEN /\ openCur' = openCur \cup {"pk"}
              /\ pos' = 0
              /\ rowsErr' = FALSE
              /\ pc' = "pkNext"
              /\ UNCHANGED << state, visited, exitCode, msg, failAt >>
         ELSE /\ MigrationFailed(Introspect("failed to get PK for table "
                                   \o tables[i].Name \o ": " \o DriverErr),
                                 "introspect", tables[i].Name, "env")
              /\ UNCHANGED << openCur, pos, rowsErr >>
    /\ UNCHANGED << src, dest, srcConn, dstConn, tables, i, raw, c, count, bar, silent,
                    run, dest1 >>

\* for pkRows.Next() { Scan(&pkCol); append }; pkRows.Close(); next table
PKNext ==
    /\ pc = "pkNext"
    /\ LET rows == CatalogPrimaryKey(tables[i].Name) IN
       \/ /\ pos < Len(rows)
          /\ \E scanned \in BOOLEAN :
               IF scanned
               THEN /\ tables' = [tables EXCEPT ![i].PrimaryKey = Append(@, rows[pos + 1])]
                    /\ pos' = pos + 1
                    /\ UNCHANGED << pc, state, visited, exitCode, msg, failAt, openCur, i >>
               ELSE /\ openCur' = openCur \ {"pk"}
                    /\ MigrationFailed(Introspect(DriverErr), "introspect",
                                       tables[i].Name, "env")
                    /\ UNCHANGED << tables, pos, i >>
          /\ UNCHANGED << rowsErr, silent >>
       \/ /\ \/ /\ pos = Len(rows)
                /\ UNCHANGED << rowsErr, silent >>
             \/ /\ silent < MaxSilent
                /\ rowsErr' = TRUE
                /\ silent' = silent + 1
          /\ openCur' = openCur \ {"pk"}
          /\ NextTableOrReturn(i, Len(tables), "colQuery", "introspectReturn")
          /\ UNCHANGED << tables, pos, state, visited, exitCode, msg, failAt >>
    /\ UNCHANGED << src, dest, srcConn, dstConn, raw, c, count, bar, issued, run, dest1 >>

\* Variant: migrate calls copyData right after introspectSchema.
IntrospectReturn_NoSchema ==
    /\ pc = "introspectReturn"
    /\ state' = "SchemaIntrospected"
    /\ visited' = Append(visited, "SchemaIntrospected")
    /\ i' = (IF Len(tables) > 0 THEN 1 ELSE 0)
    /\ pc' = (IF Len(tables) > 0 THEN "count" ELSE "copyReturn")
    /\ UNCHANGED << src, dest, srcConn, dstConn, tables, openCur, pos, rowsErr, raw, c,
                    count, bar, issued, exitCode, msg, failAt, silent, run, dest1 >>

\* migrate: introspectSchema returned the snapshot; createSchema starts.
IntrospectReturn ==
    /\ pc = "introspectReturn"
    /\ state' = "SchemaIntrospected"
    /\ visited' = Append(visited, "SchemaIntrospected")
    /\ NextTableOrReturn(0, Len(tables), "drop", "createReturn")
    /\ UNCHANGED << src, dest, srcConn, dstConn, tables, openCur, pos, rowsErr, raw, c,
                    count, bar, issued, exitCode, msg, failAt, silent, run, dest1 >>

(***************************************************************************)
(* createSchema.                                                           *)
(***************************************************************************)
CreateSchema(text) == "failed to create schema: " \o text

\* conn.Exec(DROP TABLE IF EXISTS "t" CASCADE)
Drop ==
    /\ pc = "drop"
    /\ LET t == tables[i] IN
       /\ issued' = Append(issued, Entry("DROP", "dest", t.Name, DropSQL(t), << >>))
       /\ \E ok \in BOOLEAN :
            IF ok
            THEN /\ dest' = DropTable(dest, t.Name)
                 /\ pc' = "create"
                 /\ UNCHANGED << state, visited, exitCode, msg, failAt >>
            ELSE /\ MigrationFailed(CreateSchema("failed to drop table " \o t.Name
                                      \o ": " \o DriverErr), "schema", t.Name, "env")
                 /\ UNCHANGED dest
    /\ UNCHANGED << src, srcConn, dstConn, tables, i, openCur, pos, rowsErr, raw, c,
                    count, bar, silent, run, dest1 >>

\* Build Create SQL; conn.Exec(sql); next table.  The destination refuses a
\* CREATE TABLE of a table it has.
Create ==
    /\ pc = "create"
    /\ LET t == tables[i] IN
       /\ issued' = Append(issued, Entry("CREATE", "dest", t.Name, CreateSQL(t), << >>))
       /\ \E ok \in BOOLEAN :
            IF ok /\ ~dest[t.Name].exists
            THEN /\ dest' = CreateTable(dest, t.Name, CreateSQL(t))
                 /\ NextTableOrReturn(i, Len(tables), "drop", "createReturn")
                 /\ UNCHANGED << state, visited, exitCode, msg, failAt >>
            ELSE /\ MigrationFailed(CreateSchema("failed to create table " \o t.Name
                                      \o ": " \o DriverErr), "schema", t.Name,
                                    IF ok THEN "exists" ELSE "env")
                 /\ UNCHANGED << dest, i >>
    /\ UNCHANGED << src, srcConn, dstConn, tables, openCur, pos, rowsErr, raw, c,
                    count, bar, silent, run, dest1 >>

\* migrate: createSchema returned nil; copyData starts.
CreateSchemaReturn ==
    /\ pc = "createReturn"
    /\ run = 1
    /\ state' = "SchemaApplied"
    /\ visited' = Append(visited, "SchemaApplied")
    /\ NextTableOrReturn(0, Len(tables), "count", "copyReturn")
    /\ UNCHANGED << src, dest, srcConn, dstConn, tables, openCur, pos, rowsErr, raw, c,
                    count, bar, issued, exitCode, msg, failAt, silent, run, dest1 >>

(***************************************************************************)
(* copyData.                                                               *)
(***************************************************************************)
CopyData(text) == "failed to copy data: " \o text

SourceCount(name) ==
    LET k == CHOOSE k \in 1..Len(src) : src[k].name = name IN src[k].nrows

\* Variant: an empty table is not skipped.
SkipTable_Never(n) == FALSE

\* if count == 0 { continue }
SkipTable(n) == n = 0

\* 1. Get row count; an empty table is skipped.
Count ==
    /\ pc = "count"
    /\ LET t == tables[i] IN
       /\ issued' = Append(issued, Entry("count", "source", t.Name, CountSQL(t), << >>))
       /\ \E ok \in BOOLEAN :
            IF ok
            THEN /\ count' = SourceCount(t.Name)
                 /\ IF SkipTable(count')
                    THEN /\ NextTableOrReturn(i, Len(tables), "count", "copyReturn")
                         /\ UNCHANGED bar
                    ELSE /\ bar' = [max |-> count', n |-> 0, finished |-> 0]
                         /\ pc' = "select"
                         /\ UNCHANGED i
                 /\ UNCHANGED << state, visited, exitCode, msg, failAt >>
            ELSE /\ MigrationFailed(CopyData("failed to get count for table " \o t.Name
                                      \o ": " \o DriverErr), "data", t.Name, "env")
                 /\ UNCHANGED << count, bar, i >>
    /\ UNCHANGED << src, dest, srcConn, dstConn, tables, openCur, pos, rowsErr, raw, c,
                    silent, run, dest1 >>

\* 2. Select data: source.Query with the column list of the snapshot.
Select ==
    /\ pc = "select"
    /\ LET t == tables[i] IN
       /\ issued' = Append(issued, Entry("SELECT", "source", t.Name, SelectSQL(t),
                                         escapedColNames(t)))
       /\ \E ok \in BOOLEAN :
            IF ok
            THEN /\ openCur' = openCur \cup {"data"}
                 /\ pos' = 0
                 /\ rowsErr' = FALSE
                 /\ pc' = "copyFrom"
                 /\ UNCHANGED << state, visited, exitCode, msg, failAt >>
            ELSE /\ MigrationFailed(CopyData("failed to query rows from " \o t.Name
                                      \o ": " \o DriverErr), "data", t.Name, "env")
                 /\ UNCHANGED << openCur, pos, rowsErr >>
    /\ UNCHANGED << src, dest, srcConn, dstConn, tables, i, raw, c, count, bar, silent,
                    run, dest1 >>

\* Variant: a failed CopyFrom empties every table of the destination.
CopyFailed_Rollback(t) ==
    /\ openCur' = openCur \ {"data"}
    /\ dest' = [n \in DOMAIN dest |-> [dest[n] EXCEPT !.rows = << >>]]
    /\ MigrationFailed(CopyData("failed to copy data for table " \o t.Name
                         \o ": " \o DriverErr), "data", t.Name, "env")

\* Variant: a failed CopyFrom returns with the cursor of the rows left open.
CopyFailed_NoClose(t) ==
    /\ UNCHANGED openCur
    /\ \E kept \in BOOLEAN :
         dest' = IF kept THEN dest ELSE [dest EXCEPT ![t.Name].rows = << >>]
    /\ MigrationFailed(CopyData("failed to copy data for table " \o t.Name
                         \o ": " \o DriverErr), "data", t.Name, "env")

\* A failed CopyFrom: rows.Close(), the error is returned.  The destination
\* keeps the rows it was sent or undoes the statement.
CopyFailed(t) ==
    /\ openCur' = openCur \ {"data"}
    /\ \E kept \in BOOLEAN :
         dest' = IF kept THEN dest ELSE [dest EXCEPT ![t.Name].rows = << >>]
    /\ MigrationFailed(CopyData("failed to copy data for table " \o t.Name
                         \o ": " \o DriverErr), "data", t.Name, "env")

\* 3. Copy to destination: dest.CopyFrom(ctx, Identifier{t.Name}, colNames, pbRows)
CopyFrom ==
    /\ pc = "copyFrom"
    /\ LET t == tables[i] IN
       /\ issued' = Append(issued, Entry("COPY", "dest", t.Name, "COPY", colNames(t)))
       /\ \E ok \in BOOLEAN :
            IF ok
            THEN /\ pc' = "copyNext"
                 /\ UNCHANGED << dest, openCur, state, visited, exitCode, msg, failAt >>
            ELSE CopyFailed(t)
    /\ UNCHANGED << src, srcConn, dstConn, tables, i, pos, rowsErr, raw, c, count, bar,
                    silent, run, dest1 >>

\* Variant: the bar is advanced before the cursor is asked.
ProgressBarRowsNext_AddAlways(more, b) ==
    [ret |-> more, bar |-> [b EXCEPT !.n = @ + 1]]

\* func (r *ProgressBarRows) Next() bool, with more the result of r.Rows.Next():
\* the value returned and the bar after the call.
ProgressBarRowsNext(more, b) ==
    IF more THEN [ret |-> TRUE, bar |-> [b EXCEPT !.n = @ + 1]]
            ELSE [ret |-> FALSE, bar |-> b]

\* One pbRows.Next() of CopyFrom.  The cursor has a row: the wrapper advances
\* the bar and returns true, and the row is sent to the destination, which
\* takes it or refuses it.  The cursor fails: the wrapper returns false and
\* CopyFrom, which reads the cursor's Err(), fails.  The cursor is at its
\* end: the wrapper returns false, CopyFrom returns, rows.Close(),
\* bar.Finish() and the next table.
CopyNext ==
    /\ pc = "copyNext"
    /\ LET t == tables[i] IN
       \/ /\ pos < SourceCount(t.Name)
          /\ LET w == ProgressBarRowsNext(TRUE, bar) IN
             /\ w.ret
             /\ bar' = w.bar
          /\ pos' = pos + 1
          /\ \E sent \in BOOLEAN :
               IF sent
               THEN /\ dest' = AppendRow(dest, t.Name,
                                 LoadedRow(colNames(t),
                                           SourceRow(t.Name, pos + 1, escapedColNames(t))))
                    /\ UNCHANGED << pc, i, openCur, rowsErr, state, visited, exitCode, msg, failAt >>
               ELSE /\ CopyFailed(t)
                    /\ UNCHANGED << i, rowsErr >>
       \/ /\ rowsErr' = TRUE
          /\ LET w == ProgressBarRowsNext(FALSE, bar) IN
             /\ ~w.ret
             /\ bar' = w.bar
          /\ CopyFailed(t)
          /\ UNCHANGED << pos, i >>
       \/ /\ pos = SourceCount(t.Name)
          /\ LET w == ProgressBarRowsNext(FALSE, bar) IN
             /\ ~w.ret
             /\ bar' = [w.bar EXCEPT !.finished = @ + 1]
          /\ openCur' = openCur \ {"data"}
          /\ NextTableOrReturn(i, Len(tables), "count", "copyReturn")
          /\ UNCHANGED << dest, pos, rowsErr, state, visited, exitCode, msg, failAt >>
    /\ UNCHANGED << src, srcConn, dstConn, tables, raw, c, count, issued, silent, run,
                    dest1 >>

\* migrate: copyData returned nil; migrate returns nil.
CopyDataReturn ==
    /\ pc = "copyReturn"
    /\ state' = "DataCopied"
    /\ visited' = Append(visited, "DataCopied")
    /\ pc' = "mainReturn"
    /\ UNCHANGED << src, dest, srcConn, dstConn, tables, i, openCur, pos, rowsErr, raw, c,
                    count, bar, issued, exitCode, msg, failAt, silent, run, dest1 >>

\* main prints "Migration completed successfully!" and returns: the deferred
\* destConn.Close and sourceConn.Close run, the status is 0.
MainReturn ==
    /\ pc = "mainReturn"
    /\ state' = "Done"
    /\ visited' = Append(visited, "Done")
    /\ dstConn' = "closed"
    /\ srcConn' = "closed"
    /\ exitCode' = 0
    /\ pc' = "exit"
    /\ UNCHANGED << src, dest, tables, i, openCur, pos, rowsErr, raw, c, count, bar,
                    issued, msg, failAt, silent, run, dest1 >>

Next ==
    \/ ConnectSource \/ ConnectDest
    \/ ListTables \/ ListNext \/ ColQuery \/ ColNext \/ PKQuery \/ PKNext
    \/ IntrospectReturn
    \/ Drop \/ Create \/ CreateSchemaReturn
    \/ Count \/ Select \/ CopyFrom \/ CopyNext
    \/ CopyDataReturn \/ MainReturn

Spec == Init /\ [][Next]_vars

(***************************************************************************)
(* The sanitizer alone: one catalog row, scanned and sanitized, for every  *)
(* combination of a formatted type and a default expression.               *)
(***************************************************************************)
FormattedTypes ==
    {"integer", "int4", "bigint", "int8", "smallint", "numeric", "text",
     "integer[]", "bigint[]"}

DefaultExpressions ==
    {Nil, Str("0"), Str("'none'::text"),
     Str("nextval('s_id_seq'::regclass)"),
     Str("nextval('xata_private.s_id_seq'::regclass)"),
     Str("ARRAY[nextval('s_id_seq'::regclass)]"),
     Str("xata_private.foo()"),
     Str("'a'::xata_text")}

CatalogRows ==
    { [attname |-> "col", typ |-> ty, attnotnull |-> nn, adsrc |-> d] :
        ty \in FormattedTypes, nn \in BOOLEAN, d \in DefaultExpressions }

InitSanitize ==
    /\ src = << [name |-> "users", nrows |-> 0] >>
    /\ dest = [n \in TableNames |-> Absent]
    /\ srcConn = "open"
    /\ dstConn = "open"
    /\ pc = "scanColumn"
    /\ state = "Connected"
    /\ visited = << "Start", "Connected" >>
    /\ tables = << [Name |-> "users", Columns |-> << >>, PrimaryKey |-> << >>] >>
    /\ i = 1
    /\ openCur = {"cols"}
    /\ pos = 0
    /\ rowsErr = FALSE
    /\ raw \in CatalogRows
    /\ c = NoColumn
    /\ count = 0
    /\ bar = NoBar
    /\ issued = << >>
    /\ exitCode = -1
    /\ msg = ""
    /\ failAt = NoFailure
    /\ silent = 0
    /\ run = 1
    /\ dest1 = dest

\* The body of the column loop on the row in raw.
SanitizeColumn ==
    /\ pc = "scanColumn"
    /\ c' = ScanColumn(raw)
    /\ tables' = [tables EXCEPT ![i].Columns = Append(@, c')]
    /\ pos' = pos + 1
    /\ pc' = "appended"
    /\ UNCHANGED << src, dest, srcConn, dstConn, state, visited, i, openCur, rowsErr, raw, count,
                    bar, issued, exitCode, msg, failAt, silent, run, dest1 >>

SpecSanitize == InitSanitize /\ [][SanitizeColumn]_vars

(***************************************************************************)
(* createSchema twice in succession on the same snapshot: the run up to    *)
(* the return of createSchema, and createSchema once more.                 *)
(***************************************************************************)
CreateSchemaAgain ==
    /\ pc = "createReturn"
    /\ run = 1
    /\ run' = 2
    /\ dest1' = dest
    /\ NextTableOrReturn(0, Len(tables), "drop", "createReturn")
    /\ UNCHANGED << src, dest, srcConn, dstConn, state, visited, tables, openCur, pos, rowsErr,
                    raw, c, count, bar, issued, exitCode, msg, failAt, silent >>

NextTwice ==
    \/ ConnectSource \/ ConnectDest
    \/ ListTables \/ ListNext \/ ColQuery \/ ColNext \/ PKQuery \/ PKNext
    \/ IntrospectReturn
    \/ Drop \/ Create \/ CreateSchemaAgain

SpecTwice == Init /\ [][NextTwice]_vars

(***************************************************************************)
(* Vocabulary of the properties.                                           *)
(***************************************************************************)
IntrospectOps == {"list", "columns", "pk"}
SchemaOps == {"DROP", "CREATE"}
DataOps == {"count", "SELECT", "COPY"}

Issued(ops) == { p \in 1..Len(issued) : issued[p].op \in ops }
IssuedFor(ops, name) == { p \in Issued(ops) : issued[p].table = name }

\* The snapshot has every table, column and key column of the source.
SnapshotComplete ==
    /\ Len(tables) = Len(src)
    /\ \A k \in 1..Len(tables) :
         /\ tables[k].Name = src[k].name
         /\ Len(tables[k].Columns) = Len(CatalogColumns(src[k].name))
         /\ tables[k].PrimaryKey = CatalogPrimaryKey(src[k].name)

\* Table k of the snapshot is on the destination as createSchema made it.
Created(k) ==
    /\ dest[tables[k].Name].exists
    /\ dest[tables[k].Name].ddl = CreateSQL(tables[k])

Chain ==
    { << "Start", "Connected" >>, << "Connected", "SchemaIntrospected" >>,
      << "SchemaIntrospected", "SchemaApplied" >>, << "SchemaApplied", "DataCopied" >>,
      << "DataCopied", "Done" >> }

Rank(op) == IF op \in IntrospectOps THEN 1 ELSE IF op \in SchemaOps THEN 2 ELSE 3
AnyIssued(ops) == \E p \in 1..Len(issued) : issued[p].op \in ops
WasIssued(op, name) ==
    \E p \in 1..Len(issued) : issued[p].op = op /\ issued[p].table = name

\* The statement log and the orchestrator states of C1.
C1_Barrier ==
    /\ \A p \in 1..(Len(issued) - 1) : Rank(issued[p].op) <= Rank(issued[p + 1].op)
    /\ AnyIssued(SchemaOps \cup DataOps) =>
         /\ \A k \in 1..Len(tables) :
              /\ WasIssued("columns", tables[k].Name)
              /\ WasIssued("pk", tables[k].Name)
         /\ openCur \cap {"tables", "cols", "pk"} = {}
         /\ state \notin {"Start", "Connected"}
    /\ AnyIssued(DataOps) =>
         /\ \A k \in 1..Len(tables) :
              /\ WasIssued("DROP", tables[k].Name)
              /\ WasIssued("CREATE", tables[k].Name)
              /\ dest[tables[k].Name].exists
         /\ state \notin {"Start", "Connected", "SchemaIntrospected"}

C1_Ordered ==
    /\ state = visited[Len(visited)]
    /\ \A p \in 1..(Len(visited) - 1) :
         << visited[p], visited[p + 1] >> \in Chain
           \/ (visited[p + 1] = "Failed" /\ visited[p] \notin {"Failed", "Done"})

(***************************************************************************)
(* C1.  Phase barrier.  In the log of issued statements every catalog      *)
(* query precedes every DROP and CREATE, which precede every count, SELECT *)
(* and COPY; when a DROP or CREATE has been issued the column and          *)
(* primary-key queries of every table of the snapshot were issued and      *)
(* their cursors are closed; when a count, SELECT or COPY has been issued  *)
(* every table of the snapshot was dropped and created and is on the       *)
(* destination; and the states the orchestrator visited follow Connected   *)
(* -> SchemaIntrospected -> SchemaApplied -> DataCopied -> Done, or leave  *)
(* that chain to Failed.                                                   *)
(***************************************************************************)
C1_PhaseBarrier == C1_Barrier /\ C1_Ordered

\* A run that reached Done after copying rows of a second table.
C1_Witness ==
    /\ state = "Done"
    /\ Len(tables) = 2
    /\ Issued({"COPY"}) # {}
    /\ Cardinality(Issued(SchemaOps)) = 4

(***************************************************************************)
(* C2.  Failure isolation in the data phase.  When the transfer of table   *)
(* tables[i] failed, every table before it holds the rows copied to it     *)
(* (as many as the source has) and no count, SELECT or COPY was issued for *)
(* a table after it.                                                       *)
(***************************************************************************)
C2_DataFailureIsolation ==
    failAt.phase = "data" =>
        /\ pc = "exit"
        /\ failAt.table = tables[i].Name
        /\ \A k \in 1..Len(tables) :
             /\ k < i => /\ Created(k)
                         /\ Len(dest[tables[k].Name].rows) = SourceCount(tables[k].Name)
             /\ k > i => IssuedFor(DataOps, tables[k].Name) = {}

\* The second table's transfer failed after the first table's rows were copied.
C2_Witness ==
    /\ failAt.phase = "data"
    /\ i = 2
    /\ Len(dest[tables[1].Name].rows) > 0

(***************************************************************************)
(* C4.  Empty tables.  For a table of the snapshot whose source row count  *)
(* is zero no SELECT and no COPY is ever issued; once the Row Streamer is  *)
(* past it the table is on the destination as createSchema made it, with   *)
(* no rows; the only failure the data phase can have at such a table is a  *)
(* refused count query.                                                    *)
(***************************************************************************)
C4_EmptyTableSkipped ==
    \A k \in 1..Len(tables) :
        SourceCount(tables[k].Name) = 0 =>
            /\ IssuedFor({"SELECT", "COPY"}, tables[k].Name) = {}
            /\ (IssuedFor({"count"}, tables[k].Name) # {}
                  /\ ~(failAt.phase = "data" /\ failAt.table = tables[k].Name)) =>
                   /\ Created(k)
                   /\ dest[tables[k].Name].rows = << >>
                   /\ (pc # "exit" => (i > k \/ pc \in {"copyReturn", "mainReturn"}))
            /\ (failAt.phase = "data" /\ failAt.table = tables[k].Name) =>
                   issued[Len(issued)].op = "count"

\* A run that skipped an empty table, copied another one and ended in Done.
C4_Witness ==
    /\ state = "Done"
    /\ exitCode = 0
    /\ Len(tables) = 2
    /\ SourceCount(tables[1].Name) = 0
    /\ IssuedFor({"count"}, tables[1].Name) # {}
    /\ Len(dest[tables[2].Name].rows) > 0

(***************************************************************************)
(* C3.  Failed catalog reads.  A run in which a catalog cursor stopped     *)
(* with an error ends in Failed, and no DROP, CREATE, count, SELECT or     *)
(* COPY is issued while the snapshot misses a table, a column or a key     *)
(* column of the source.                                                   *)
(***************************************************************************)
C3_NoPartialSnapshot ==
    /\ (pc = "exit" /\ silent > 0) => state = "Failed"
    /\ Issued(SchemaOps \cup DataOps) # {} => SnapshotComplete

\* The cases of the sanitizer, read off the catalog row.
PrivateDefault(row) ==
    ~row.adsrc.isNil
      /\ (contains(row.adsrc.val, "xata_private") \/ contains(row.adsrc.val, "::xata_"))
SequenceDefault(row) == ~row.adsrc.isNil /\ contains(row.adsrc.val, "nextval(")
IntegerFamily(ty) == HasPrefix(ty, "integer") \/ ty = "int4"
BigIntegerFamily(ty) == HasPrefix(ty, "bigint") \/ ty = "int8"

SanitizedAs(row, col, rewritten) ==
    /\ col.Name = row.attname
    /\ col.IsNullable = (IF row.attnotnull THEN "NO" ELSE "YES")
    /\ IF rewritten
       THEN /\ col.DataType = (IF IntegerFamily(row.typ) THEN "SERIAL" ELSE "BIGSERIAL")
            /\ col.Default = Nil
       ELSE /\ col.DataType = row.typ
            /\ col.Default = (IF PrivateDefault(row) THEN Nil ELSE row.adsrc)

C12_NoSilentNarrowing ==
    (/\ pc = "appended"
     /\ SequenceDefault(raw)
     /\ ~PrivateDefault(raw)
     /\ raw.typ \notin {"integer", "int4", "bigint", "int8"})
    => (c.DataType = raw.typ /\ c.Default = raw.adsrc)

(***************************************************************************)
(* C13.  Rule order.  The type is rewritten only for a default that does   *)
(* not match the private pattern, and a column whose default matches both  *)
(* the private pattern and nextval( ends with no default and the type it   *)
(* had.                                                                    *)
(***************************************************************************)
C13_RuleOrder ==
    pc = "appended" =>
        /\ c.DataType # raw.typ => ~PrivateDefault(raw)
        /\ (PrivateDefault(raw) /\ SequenceDefault(raw))
             => (c.Default = Nil /\ c.DataType = raw.typ)

\* An integer column whose default is a sequence of the private schema.
C13_Witness ==
    /\ pc = "appended"
    /\ PrivateDefault(raw)
    /\ SequenceDefault(raw)
    /\ raw.typ = "integer"
    /\ c.DataType = "integer"
    /\ c.Default = Nil

(***************************************************************************)
(* C14.  The sanitizer never invents a default.  The sanitized default is  *)
(* absent or the one read from the catalog, the sanitized type is the      *)
(* source type or SERIAL / BIGSERIAL, a rewritten type comes with no       *)
(* default, and the column's text in CREATE TABLE has a DEFAULT clause     *)
(* only for a default that was read from the catalog, never on SERIAL or   *)
(* BIGSERIAL.                                                              *)
(***************************************************************************)
C14_NoInventedDefault ==
    pc = "appended" =>
        /\ c.Default \in {Nil, raw.adsrc}
        /\ c.DataType \in {raw.typ, "SERIAL", "BIGSERIAL"}
        /\ c.DataType # raw.typ => c.Default = Nil
        /\ c.DataType \in {"SERIAL", "BIGSERIAL"}
             => ~contains(ColumnSQL(c), " DEFAULT ")
        /\ contains(ColumnSQL(c), " DEFAULT ")
             => (~raw.adsrc.isNil /\ contains(ColumnSQL(c), " DEFAULT " \o raw.adsrc.val))

\* An int4 column with a sequence default: SERIAL, and no DEFAULT clause.
C14_Witness ==
    /\ pc = "appended"
    /\ raw.typ = "int4"
    /\ raw.attnotnull
    /\ c.DataType = "SERIAL"
    /\ c.Default = Nil
    /\ ColumnSQL(c) = "\"col\" SERIAL NOT NULL"

\* The columns the source declares for a table, in catalog order.
DeclaredColumns(name) ==
    [j \in 1..Len(CatalogColumns(name)) |-> CatalogColumns(name)[j].attname]

(***************************************************************************)
(* C6.  Round trip.  When the run ends in Done, every source table with N  *)
(* rows and declared columns C is on the destination with exactly N rows   *)
(* holding the source's values in C, and every SELECT list and COPY column *)
(* list issued for it is C in declared order.                              *)
(***************************************************************************)
C6_RoundTrip ==
    state = "Done" =>
        \A k \in 1..Len(src) :
            LET name == src[k].name
                C == DeclaredColumns(name)
            IN  /\ dest[name].exists
                /\ Len(dest[name].rows) = src[k].nrows
                /\ \A r \in 1..src[k].nrows :
                     /\ DOMAIN dest[name].rows[r] = { C[j] : j \in 1..Len(C) }
                     /\ \A j \in 1..Len(C) :
                          dest[name].rows[r][C[j]] = SourceValue(name, r, C[j])
                /\ \A p \in IssuedFor({"SELECT"}, name) :
                     issued[p].cols = [j \in 1..Len(C) |-> Quote(C[j])]
                /\ \A p \in IssuedFor({"COPY"}, name) : issued[p].cols = C

\* The words by which a message names a phase.
PhaseText(phase) ==
    CASE phase = "introspect" -> "introspect schema"
      [] phase = "schema" -> "create schema"
      [] phase = "data" -> "copy data"
      [] OTHER -> "connect"

(***************************************************************************)
(* C7.  Process outcome.  The status is zero exactly when no catalog read, *)
(* no schema statement and no transfer failed; a failure of a phase gives  *)
(* a non-zero status and a message that names the phase and, when the      *)
(* failure concerns a table, the table.                                    *)
(***************************************************************************)
C7_ProcessOutcome ==
    pc = "exit" =>
        /\ exitCode = 0 <=> (failAt.phase = "none" /\ silent = 0)
        /\ failAt.phase \in {"introspect", "schema", "data"} =>
             /\ exitCode # 0
             /\ contains(msg, PhaseText(failAt.phase))
             /\ failAt.table # "" => contains(msg, failAt.table)

(***************************************************************************)
(* C8.  Primary key fidelity.  The CREATE TABLE of a table whose source    *)
(* primary key is not empty declares a primary key over the captured key   *)
(* columns in the captured order; the CREATE TABLE of a table without a    *)
(* primary key has no PRIMARY KEY clause.                                  *)
(***************************************************************************)
C8_PrimaryKeyFidelity ==
    \A k \in 1..Len(tables) :
        \A p \in IssuedFor({"CREATE"}, tables[k].Name) :
            LET captured == tables[k].PrimaryKey
                quoted == [j \in 1..Len(captured) |-> Quote(captured[j])]
            IN  IF Len(CatalogPrimaryKey(tables[k].Name)) > 0
                THEN contains(issued[p].text,
                              "PRIMARY KEY (" \o joinStrings(quoted, ", ") \o ")")
                ELSE ~contains(issued[p].text, "PRIMARY KEY")

(***************************************************************************)
(* C15.  Connections.  The source connection is opened first and the       *)
(* destination connection second, both stay open from the end of the       *)
(* connect steps to the end of the run, and when the run has ended - in    *)
(* success or in failure - every connection that was opened is closed.     *)
(***************************************************************************)
C15_ConnectionsReleased ==
    /\ pc = "connectSource" => (srcConn = "none" /\ dstConn = "none")
    /\ pc = "connectDest" => (srcConn = "open" /\ dstConn = "none")
    /\ pc \notin {"connectSource", "connectDest", "exit"}
         => (srcConn = "open" /\ dstConn = "open")
    /\ pc = "exit" => (srcConn \in {"none", "closed"} /\ dstConn \in {"none", "closed"})

(***************************************************************************)
(* C16.  Progress reporting.  The wrapper's Next returns what the cursor's *)
(* Next returned and advances the bar by one exactly when that is true;    *)
(* while a table is loaded the bar's count is the number of rows the       *)
(* cursor advanced to, which is the number of rows handed to the bulk      *)
(* loader, and never more than the table's count; Finish is called at most *)
(* once for a bar, after the cursor was closed, with every row of the      *)
(* table counted.                                                          *)
(***************************************************************************)
C16_ProgressReporting ==
    /\ \A more \in BOOLEAN :
         LET w == ProgressBarRowsNext(more, bar)
         IN  /\ w.ret = more
             /\ w.bar.n = bar.n + (IF more THEN 1 ELSE 0)
    /\ pc \in {"copyFrom", "copyNext"}
         => /\ bar.n = pos
            /\ bar.n = Len(dest[tables[i].Name].rows)
            /\ bar.max = count
    /\ bar.n <= bar.max
    /\ "data" \in openCur => bar.finished = 0
    /\ bar.finished <= 1
    /\ bar.finished = 1 => bar.n = bar.max
    /\ (pc = "exit" /\ state = "Done"
          /\ \E k \in 1..Len(tables) : Len(dest[tables[k].Name].rows) > 0)
         => bar.finished = 1

\* A table of MaxRows rows was loaded and its bar finished.
C16_Witness ==
    /\ pc = "exit"
    /\ state = "Done"
    /\ bar.finished = 1
    /\ bar.max = MaxRows
    /\ bar.n = MaxRows

\* The place of a table in the snapshot.
TableIndex(name) == CHOOSE k \in 1..Len(tables) : tables[k].Name = name

\* The statement at place p of the log is the first of its phase for the
\* first table, or follows the last statement of the table before it.
StartsTable(p, ops, lastOps) ==
    LET k == TableIndex(issued[p].table)
    IN  IF p > 1 /\ issued[p - 1].op \in ops
        THEN /\ issued[p - 1].op \in lastOps
             /\ k > 1
             /\ issued[p - 1].table = tables[k - 1].Name
        ELSE k = 1

\* The statement at place p of the log comes right after op on the same table.
Follows(p, op) ==
    /\ p > 1
    /\ issued[p - 1].op = op
    /\ issued[p - 1].table = issued[p].table

(***************************************************************************)
(* C17.  Sequential tables.  In the schema phase and in the data phase the *)
(* statements are issued table by table in snapshot order: a table's first *)
(* statement (DROP, count) comes right after the last statement of the     *)
(* table before it (CREATE; COPY, or count for an empty table), CREATE     *)
(* comes right after the DROP of its table, SELECT right after the count   *)
(* and COPY right after the SELECT; and while table i is loaded every      *)
(* table before it is loaded completely and no table after it has a row.   *)
(***************************************************************************)
C17_SequentialTables ==
    /\ \A p \in 1..Len(issued) :
         CASE issued[p].op = "DROP" -> StartsTable(p, SchemaOps, {"CREATE"})
           [] issued[p].op = "CREATE" -> Follows(p, "DROP")
           [] issued[p].op = "count" -> StartsTable(p, DataOps, {"count", "COPY"})
           [] issued[p].op = "SELECT" -> Follows(p, "count")
           [] issued[p].op = "COPY" -> Follows(p, "SELECT")
           [] OTHER -> TRUE
    /\ pc \in {"count", "select", "copyFrom", "copyNext"}
         => \A k \in 1..Len(tables) :
              /\ k < i => Len(dest[tables[k].Name].rows) = SourceCount(tables[k].Name)
              /\ k > i => /\ dest[tables[k].Name].rows = << >>
                          /\ IssuedFor(DataOps, tables[k].Name) = {}

\* Two tables with rows were loaded one after the other.
C17_Witness ==
    /\ pc = "exit"
    /\ state = "Done"
    /\ Len(tables) = 2
    /\ Len(issued) >= 6
    /\ [k \in 1..6 |-> issued[Len(issued) - 6 + k].op]
         = << "count", "SELECT", "COPY", "count", "SELECT", "COPY" >>
    /\ issued[Len(issued)].table = tables[2].Name
    /\ issued[Len(issued) - 3].table = tables[1].Name

(***************************************************************************)
(* C18.  Cursor discipline.  At most one cursor is open on the source, and *)
(* a cursor is open only while its own loop reads it: the listing in the   *)
(* loop over the table names, a table's columns in the column loop, a      *)
(* table's key in the key loop, a table's rows during CopyFrom.  So no     *)
(* cursor is open when a query is issued, when introspectSchema or         *)
(* copyData returns, or when the run has ended, in success or in failure.  *)
(***************************************************************************)
C18_CursorDiscipline ==
    /\ Cardinality(openCur) <= 1
    /\ "tables" \in openCur => pc = "listNext"
    /\ "cols" \in openCur => pc = "colNext"
    /\ "pk" \in openCur => pc = "pkNext"
    /\ "data" \in openCur => pc \in {"copyFrom", "copyNext"}
    /\ pc \in {"listTables", "colQuery", "pkQuery", "count", "select",
               "introspectReturn", "copyReturn", "mainReturn", "exit"}
         => openCur = {}

\* The read of a table's rows failed during CopyFrom and the run has ended.
C18_Witness ==
    /\ pc = "exit"
    /\ failAt.phase = "data"
    /\ issued[Len(issued)].op = "COPY"
    /\ rowsErr
    /\ openCur = {}

\* The names of the tables of the snapshot.
SnapshotNames == { tables[k].Name : k \in 1..Len(tables) }

(***************************************************************************)
(* C19.  Frame.  Every statement sent to the source is a SELECT (the       *)
(* catalog queries, the counts, the reads of rows); DROP, CREATE and COPY  *)
(* go to the destination only, each names a table of the snapshot and no   *)
(* other table, and a table of the destination whose name is not in the    *)
(* snapshot is as it was when the run started.                             *)
(***************************************************************************)
C19_Frame ==
    /\ \A p \in 1..Len(issued) :
         IF issued[p].conn = "source"
         THEN /\ issued[p].op \in IntrospectOps \cup {"count", "SELECT"}
              /\ HasPrefix(issued[p].text, "SELECT ")
         ELSE /\ issued[p].conn = "dest"
              /\ issued[p].op \in {"DROP", "CREATE", "COPY"}
              /\ issued[p].table \in SnapshotNames
              /\ issued[p].op = "DROP"
                   => issued[p].text
                        = "DROP TABLE IF EXISTS \"" \o issued[p].table \o "\" CASCADE"
              /\ issued[p].op = "CREATE"
                   => HasPrefix(issued[p].text,
                                "CREATE TABLE \"" \o issued[p].table \o "\" (")
    /\ \A n \in TableNames \ SnapshotNames : dest[n] = dest1[n]

\* The run is done and the destination still has a table the snapshot does
\* not name.
C19_Witness ==
    /\ pc = "exit"
    /\ state = "Done"
    /\ Len(tables) = 2
    /\ \E n \in TableNames \ SnapshotNames : dest[n] = Stale
    /\ \E n \in SnapshotNames : dest[n].rows # << >>

\* Two destinations with the same tables and the same structures.
SameStructure(d, e) ==
    \A n \in TableNames : d[n].exists = e[n].exists /\ d[n].ddl = e[n].ddl

(***************************************************************************)
(* C9.  Idempotence of schema application.  createSchema, run twice in     *)
(* succession on one snapshot from any destination, is never refused by    *)
(* what the destination already holds (a failure of it is a statement the  *)
(* destination refused for a reason of its own), and after the first and   *)
(* after the second run every table of the snapshot is on the destination  *)
(* with the structure of its CREATE TABLE and the destination has the same *)
(* tables with the same structure.                                         *)
(***************************************************************************)
C9_SchemaIdempotent ==
    /\ failAt.phase = "schema" => failAt.cause = "env"
    /\ pc = "createReturn" => \A k \in 1..Len(tables) : Created(k)
    /\ (pc = "createReturn" /\ run = 2) => SameStructure(dest, dest1)

\* The second createSchema returned, on a destination that had other tables.
C9_Witness ==
    /\ pc = "createReturn"
    /\ run = 2
    /\ Len(tables) = 2
    /\ \E n \in TableNames : dest[n] = Stale

(***************************************************************************)
(* C10.  Schema-apply failure.  When the DROP or CREATE of tables[i]       *)
(* failed, every table before it is on the destination as created, no      *)
(* DROP or CREATE was issued for a table after it, the run is in Failed,   *)
(* and no count, SELECT or COPY was issued.                                *)
(***************************************************************************)
C10_SchemaFailure ==
    failAt.phase = "schema" =>
        /\ pc = "exit"
        /\ state = "Failed"
        /\ failAt.table = tables[i].Name
        /\ \A k \in 1..Len(tables) :
             /\ k < i => Created(k)
             /\ k > i => IssuedFor(SchemaOps, tables[k].Name) = {}
        /\ Issued(DataOps) = {}

\* The CREATE of the second table failed after the first table was created.
C10_Witness ==
    /\ failAt.phase = "schema"
    /\ i = 2
    /\ issued[Len(issued)].op = "CREATE"
    /\ dest[tables[1].Name].exists
====
